---- MODULE Spec2Model ----
(***************************************************************************)
(* Model of auto_car: the Wheel and Car classes of car.py and the frame     *)
(* streaming session of pilot_client.py / pilot_serv.py.                    *)
(*                                                                          *)
(* Duty cycles are kept in tenths of a percent-point (4 -> 40, 0.2 -> 2,    *)
(* 5.2 -> 52) so that the float sums of car.py are exact integers.         *)
(***************************************************************************)
EXTENDS Integers, Sequences, FiniteSets, TLC

VARIABLES
  wheel,   \* wheel[w]: the fields of the Wheel object w (car.py 25-27)
  gpio,    \* gpio[w]: what the GPIO/PWM driver holds for w's pins
  trace,   \* the operations executed so far, each with the wheel calls it made
  cpc,     \* pilot_client.py: where the client is
  stream,  \* pilot_client.py: the io.BytesIO the camera captures into
  count,   \* pilot_client.py: count
  key,     \* pilot_client.py: key
  cwbuf,   \* bytes held in the write buffer of the client's connection
  chandles,\* which of the client's handles are closed
  cexit,   \* how the client left its loop
  spc,     \* pilot_serv.py: where the server is
  image_len,    \* pilot_serv.py: image_len
  image_stream, \* pilot_serv.py: image_stream
  shandles,\* which of the server's handles are closed
  sexit,   \* how the server left its loop
  c2s,     \* bytes sent by the client and not yet read by the server
  s2c,     \* bytes sent by the server and not yet read by the client
  frames,  \* per captured frame: what the client wrote for it
  served,  \* per length prefix the server decoded: what it read and did
  keys,    \* what each connection.read(1) of the client returned
  key_flag,\* collect_data.py: the global key_flag
  ctl,     \* collect_data.py: where car_control is, and the flag it is about to store
  cap,     \* collect_data.py: where capture_img is
  pressed, \* the arrow keys held down (keyboard.key.get_pressed())
  events,  \* the keyboard events not yet taken by keyboard.event.get()
  saved    \* per image written: its folder and the last Car command at that moment

carVars == <<wheel, gpio, trace>>

clientVars == <<cpc, stream, count, key, cwbuf, chandles, cexit, frames, keys>>

serverVars == <<spc, image_len, image_stream, shandles, sexit, served>>

wireVars == <<c2s, s2c>>

sessVars == <<clientVars, serverVars, wireVars>>

collectVars == <<key_flag, ctl, cap, pressed, events, saved>>

vars == <<carVars, sessVars, collectVars>>

----------------------------------------------------------------------------
(* Bounds and inputs *)

MaxOps == 3

\* frames the camera yields in a session
MaxFrames == 3

\* size of the write buffer of the buffered connection (io.DEFAULT_BUFFER_SIZE
\* in CPython, scaled down); a length prefix fits in it
BufSize == 4

\* size of a frame that fits in the write buffer
SmallFrame == 2

\* class indices the perception step can return: 0..MaxClassIndex
MaxClassIndex == 3

\* sizes of the captured frames: one that fits the write buffer, one that does not
FrameSizes == {SmallFrame, BufSize + 1}

LEFT_FR_BIAS == 10
RIGHT_FR_BIAS == 10
LEFT_RIGHT_BIAS == 2

\* The constant literal 1 of turn_left / turn_right / rotate_left / rotate_right.
ONE == 10

\* speed arguments given to the Car commands: 4 (the callers' value) and 100
Speeds == {40, 1000}

\* duty cycles given to a Wheel directly
DutyCycles == {0, 40, 52}

Wheels == {"front_left", "front_right", "rear_left", "rear_right"}

\* the Wheel exercised through its own methods
UnitWheels == {"front_left"}

----------------------------------------------------------------------------
(* Wheel *)

\* Wheel.__init__: the object's fields
NewWheel == [last_dir |-> "s", last_dc_val |-> 0, current_dc_val |-> 0]

\* Wheel.__init__: GPIO.setup gives the pins no level; PWM starts at 0
NewGpio == [dir_pin_1 |-> "UNSET", dir_pin_2 |-> "UNSET", duty |-> 0]

\* GPIO.output(dir_pin_1, p1); GPIO.output(dir_pin_2, p2)
DirWrite(p1, p2) == [kind |-> "dir", p1 |-> p1, p2 |-> p2, dc |-> 0]

\* motor_pwm.ChangeDutyCycle(dc): the value is recorded as car.py passes it;
\* the driver is taken to accept every call
DcWrite(dc) == [kind |-> "dc", p1 |-> "-", p2 |-> "-", dc |-> dc]

\* SetDutyCycle without the comparison with the last duty cycle
SetDutyCycleAlways(r, speed) ==
  [self   |-> [r.self EXCEPT !.current_dc_val = speed, !.last_dc_val = speed],
   hw     |-> [r.hw EXCEPT !.duty = speed],
   writes |-> Append(r.writes, DcWrite(speed))]

\* SetDutyCycle that issues the duty cycle and does not record it
SetDutyCycleNoRecord(r, speed) ==
  LET self == [r.self EXCEPT !.current_dc_val = speed]
  IN IF self.current_dc_val # self.last_dc_val
       THEN [self   |-> self,
             hw     |-> [r.hw EXCEPT !.duty = speed],
             writes |-> Append(r.writes, DcWrite(speed))]
       ELSE [self |-> self, hw |-> r.hw, writes |-> r.writes]

\* SetDutyCycle that ramps: it issues the value halfway between the last
\* duty cycle and the one asked for
SetDutyCycleRamp(r, speed) ==
  LET dc == (r.self.last_dc_val + speed) \div 2
      self == [r.self EXCEPT !.current_dc_val = dc]
  IN IF self.current_dc_val # self.last_dc_val
       THEN [self   |-> [self EXCEPT !.last_dc_val = self.current_dc_val],
             hw     |-> [r.hw EXCEPT !.duty = dc],
             writes |-> Append(r.writes, DcWrite(dc))]
       ELSE [self |-> self, hw |-> r.hw, writes |-> r.writes]

\* the tail shared by clockwise_rotate and anticlockwise_rotate (lines 51-54,
\* 67-70): r is the result of the direction part
SetDutyCycle(r, speed) ==
  LET self == [r.self EXCEPT !.current_dc_val = speed]
  IN IF self.current_dc_val # self.last_dc_val
       THEN [self   |-> [self EXCEPT !.last_dc_val = self.current_dc_val],
             hw     |-> [r.hw EXCEPT !.duty = speed],
             writes |-> Append(r.writes, DcWrite(speed))]
       ELSE [self |-> self, hw |-> r.hw, writes |-> r.writes]

\* SetDirection without the comparison with the last direction
SetDirectionAlways(self, hw, d, p1, p2) ==
  [self   |-> [self EXCEPT !.last_dir = d],
   hw     |-> [hw EXCEPT !.dir_pin_1 = p1, !.dir_pin_2 = p2],
   writes |-> <<DirWrite(p1, p2)>>]

\* the direction part (lines 46-49, 62-65)
SetDirection(self, hw, d, p1, p2) ==
  IF self.last_dir # d
    THEN [self   |-> [self EXCEPT !.last_dir = d],
          hw     |-> [hw EXCEPT !.dir_pin_1 = p1, !.dir_pin_2 = p2],
          writes |-> <<DirWrite(p1, p2)>>]
    ELSE [self |-> self, hw |-> hw, writes |-> <<>>]

clockwise_rotate(self, hw, speed) ==
  SetDutyCycle(SetDirection(self, hw, "c", "HIGH", "LOW"), speed)

anticlockwise_rotate(self, hw, speed) ==
  SetDutyCycle(SetDirection(self, hw, "a", "LOW", "HIGH"), speed)

\* stop with line 77 (ChangeDutyCycle(0)) live and recorded
stop_zero_duty(self, hw) ==
  [self   |-> [self EXCEPT !.last_dir = "s", !.last_dc_val = 0],
   hw     |-> [hw EXCEPT !.dir_pin_1 = "HIGH", !.dir_pin_2 = "HIGH", !.duty = 0],
   writes |-> <<DirWrite("HIGH", "HIGH"), DcWrite(0)>>]

\* stop with the comparison with the last direction that the rotations have
stop_if_changed(self, hw) ==
  IF self.last_dir # "s"
    THEN [self   |-> [self EXCEPT !.last_dir = "s"],
          hw     |-> [hw EXCEPT !.dir_pin_1 = "HIGH", !.dir_pin_2 = "HIGH"],
          writes |-> <<DirWrite("HIGH", "HIGH")>>]
    ELSE [self |-> self, hw |-> hw, writes |-> <<>>]

stop(self, hw) ==
  [self   |-> [self EXCEPT !.last_dir = "s"],
   hw     |-> [hw EXCEPT !.dir_pin_1 = "HIGH", !.dir_pin_2 = "HIGH"],
   writes |-> <<DirWrite("HIGH", "HIGH")>>]

\* one method call on a Wheel: op is "c", "a" or "s"
Req(w, op, speed) == [w |-> w, op |-> op, speed |-> speed]

Apply(req, self, hw) ==
  CASE req.op = "c" -> clockwise_rotate(self, hw, req.speed)
    [] req.op = "a" -> anticlockwise_rotate(self, hw, req.speed)
    [] req.op = "s" -> stop(self, hw)

----------------------------------------------------------------------------
(* Car: each command is the sequence of its four wheel calls *)

\* move_forward with the left/right bias left out of the rear-left wheel
move_forward_no_lr_bias(speed) ==
  << Req("front_left",  "a", speed + LEFT_FR_BIAS + LEFT_RIGHT_BIAS),
     Req("front_right", "c", speed + RIGHT_FR_BIAS),
     Req("rear_left",   "a", speed),
     Req("rear_right",  "c", speed) >>

move_forward(speed) ==
  << Req("front_left",  "a", speed + LEFT_FR_BIAS + LEFT_RIGHT_BIAS),
     Req("front_right", "c", speed + RIGHT_FR_BIAS),
     Req("rear_left",   "a", speed + LEFT_RIGHT_BIAS),
     Req("rear_right",  "c", speed) >>

\* move_reverse with the rear-right wheel left in its forward sense
move_reverse_rear_right_forward(speed) ==
  << Req("front_left",  "c", speed + LEFT_FR_BIAS + LEFT_RIGHT_BIAS),
     Req("front_right", "a", speed + RIGHT_FR_BIAS),
     Req("rear_left",   "c", speed + LEFT_RIGHT_BIAS),
     Req("rear_right",  "c", speed) >>

move_reverse(speed) ==
  << Req("front_left",  "c", speed + LEFT_FR_BIAS + LEFT_RIGHT_BIAS),
     Req("front_right", "a", speed + RIGHT_FR_BIAS),
     Req("rear_left",   "c", speed + LEFT_RIGHT_BIAS),
     Req("rear_right",  "a", speed) >>

\* turn_left with the inner (left) wheels scaled by speed
turn_left_scaled(speed) ==
  << Req("front_left",  "a", speed + LEFT_FR_BIAS + LEFT_RIGHT_BIAS),
     Req("front_right", "c", speed + RIGHT_FR_BIAS),
     Req("rear_left",   "a", speed + LEFT_RIGHT_BIAS),
     Req("rear_right",  "c", speed) >>

turn_left(speed) ==
  << Req("front_left",  "a", ONE + LEFT_FR_BIAS + LEFT_RIGHT_BIAS),
     Req("front_right", "c", speed + RIGHT_FR_BIAS),
     Req("rear_left",   "a", ONE + LEFT_RIGHT_BIAS),
     Req("rear_right",  "c", speed) >>

turn_right(speed) ==
  << Req("front_left",  "a", speed + LEFT_FR_BIAS + LEFT_RIGHT_BIAS),
     Req("front_right", "c", ONE + RIGHT_FR_BIAS),
     Req("rear_left",   "a", speed + LEFT_RIGHT_BIAS),
     Req("rear_right",  "c", ONE) >>

rotate_left(speed) ==
  << Req("front_left",  "c", speed + LEFT_FR_BIAS + LEFT_RIGHT_BIAS),
     Req("front_right", "c", speed + RIGHT_FR_BIAS),
     Req("rear_left",   "c", speed + ONE + LEFT_RIGHT_BIAS),
     Req("rear_right",  "c", speed) >>

\* rotate_right without the constant 1 on the rear-left wheel
rotate_right_no_offset(speed) ==
  << Req("front_left",  "a", speed + LEFT_FR_BIAS + LEFT_RIGHT_BIAS),
     Req("front_right", "a", speed + RIGHT_FR_BIAS),
     Req("rear_left",   "a", speed + LEFT_RIGHT_BIAS),
     Req("rear_right",  "a", speed) >>

rotate_right(speed) ==
  << Req("front_left",  "a", speed + LEFT_FR_BIAS + LEFT_RIGHT_BIAS),
     Req("front_right", "a", speed + RIGHT_FR_BIAS),
     Req("rear_left",   "a", speed + ONE + LEFT_RIGHT_BIAS),
     Req("rear_right",  "a", speed) >>

car_stop ==
  << Req("front_left", "s", 0), Req("front_right", "s", 0),
     Req("rear_left", "s", 0), Req("rear_right", "s", 0) >>

\* Executes the wheel calls in order. The result holds the wheels and pins
\* afterwards and, per call, the request, the wheel and its pins before and
\* after the call, and the writes the call issued to the driver.
RECURSIVE Exec(_, _, _, _)
Exec(reqs, whs, hws, done) ==
  IF reqs = <<>> THEN [wheel |-> whs, gpio |-> hws, calls |-> done]
  ELSE LET q == Head(reqs)
           r == Apply(q, whs[q.w], hws[q.w])
           c == [w |-> q.w, op |-> q.op, speed |-> q.speed,
                 pre |-> [self |-> whs[q.w], hw |-> hws[q.w]],
                 post |-> [self |-> r.self, hw |-> r.hw],
                 writes |-> r.writes]
       IN Exec(Tail(reqs), [whs EXCEPT ![q.w] = r.self],
               [hws EXCEPT ![q.w] = r.hw], Append(done, c))

\* runs a command (a sequence of wheel calls) issued as cmd(speed) on key `by`
Run(cmd, speed, by, reqs) ==
  LET x == Exec(reqs, wheel, gpio, <<>>)
  IN /\ wheel' = x.wheel
     /\ gpio' = x.gpio
     /\ trace' = Append(trace, [cmd |-> cmd, speed |-> speed, by |-> by,
                                calls |-> x.calls])

----------------------------------------------------------------------------
(* The Car and Wheel interfaces driven by an arbitrary caller *)

Init ==
  /\ wheel = [w \in Wheels |-> NewWheel]
  /\ gpio = [w \in Wheels |-> NewGpio]
  /\ trace = <<>>
  /\ cpc = "capture"
  /\ stream = [pos |-> 0, size |-> 0]
  /\ count = 0
  /\ key = ""
  /\ cwbuf = <<>>
  /\ chandles = {}
  /\ cexit = "none"
  /\ spc = "read_len"
  /\ image_len = 0
  /\ image_stream = <<>>
  /\ shandles = {}
  /\ sexit = "none"
  /\ c2s = <<>>
  /\ s2c = <<>>
  /\ frames = <<>>
  /\ served = <<>>
  /\ keys = <<>>
  /\ key_flag = "s"
  /\ ctl = [pc |-> "wait", flag |-> "s"]
  /\ cap = "read"
  /\ pressed = {}
  /\ events = <<>>
  /\ saved = <<>>

MoveForward(s) ==
  Len(trace) < MaxOps /\ Run("move_forward", s, "", move_forward(s)) /\ UNCHANGED <<sessVars, collectVars>>
MoveReverse(s) ==
  Len(trace) < MaxOps /\ Run("move_reverse", s, "", move_reverse(s)) /\ UNCHANGED <<sessVars, collectVars>>
TurnLeft(s) ==
  Len(trace) < MaxOps /\ Run("turn_left", s, "", turn_left(s)) /\ UNCHANGED <<sessVars, collectVars>>
TurnRight(s) ==
  Len(trace) < MaxOps /\ Run("turn_right", s, "", turn_right(s)) /\ UNCHANGED <<sessVars, collectVars>>
RotateLeft(s) ==
  Len(trace) < MaxOps /\ Run("rotate_left", s, "", rotate_left(s)) /\ UNCHANGED <<sessVars, collectVars>>
RotateRight(s) ==
  Len(trace) < MaxOps /\ Run("rotate_right", s, "", rotate_right(s)) /\ UNCHANGED <<sessVars, collectVars>>
CarStop ==
  Len(trace) < MaxOps /\ Run("stop", 0, "", car_stop) /\ UNCHANGED <<sessVars, collectVars>>

WheelClockwise(w, s) ==
  /\ Len(trace) < MaxOps
  /\ Run("wheel", s, "", <<Req(w, "c", s)>>)
  /\ UNCHANGED <<sessVars, collectVars>>
WheelAnticlockwise(w, s) ==
  /\ Len(trace) < MaxOps
  /\ Run("wheel", s, "", <<Req(w, "a", s)>>)
  /\ UNCHANGED <<sessVars, collectVars>>
WheelStop(w) ==
  /\ Len(trace) < MaxOps
  /\ Run("wheel", 0, "", <<Req(w, "s", 0)>>)
  /\ UNCHANGED <<sessVars, collectVars>>

Next ==
  \/ \E s \in Speeds : MoveForward(s)
  \/ \E s \in Speeds : MoveReverse(s)
  \/ \E s \in Speeds : TurnLeft(s)
  \/ \E s \in Speeds : TurnRight(s)
  \/ \E s \in Speeds : RotateLeft(s)
  \/ \E s \in Speeds : RotateRight(s)
  \/ CarStop
  \/ \E w \in UnitWheels, s \in DutyCycles : WheelClockwise(w, s)
  \/ \E w \in UnitWheels, s \in DutyCycles : WheelAnticlockwise(w, s)
  \/ \E w \in UnitWheels : WheelStop(w)

Spec == Init /\ [][Next]_vars

----------------------------------------------------------------------------
(* The wire and the buffered connection *)

\* a byte on the wire: its value, and the frame and field it was written for
B(v, f, k) == [v |-> v, f |-> f, k |-> k]

\* struct.pack('<L', n) for frame f
Pack(n, f) == [i \in 1..4 |-> B((n \div (256 ^ (i - 1))) % 256, f, "len")]

\* struct.unpack('<L', bs)[0]
Unpack(bs) ==
  bs[1].v + 256 * bs[2].v + 256 * 256 * bs[3].v + 256 * 256 * 256 * bs[4].v

\* the n bytes of an encoded image
PayloadBytes(n, f) == [i \in 1..n |-> B(255, f, "pay")]

\* str(k).encode('utf-8') of a class index below 10
EncodeKey(k) == 48 + k

\* bytes.decode('utf-8') succeeds on one byte exactly when the byte is below
\* 0x80; every single byte from 0x80 up is an invalid or incomplete sequence
Decodes(v) == v < 128

\* bytes.decode('utf-8') of the one byte read, for a byte that decodes: a
\* one-character string, a digit for the bytes 48..57 and some other
\* character ("?") otherwise
DecodeKey(v) ==
  IF v \in 48..57
    THEN <<"0", "1", "2", "3", "4", "5", "6", "7", "8", "9">>[v - 47]
    ELSE "?"

\* the camera writes n bytes into the stream at its position
StreamCapture(st, n) ==
  [pos  |-> st.pos + n,
   size |-> IF st.pos + n > st.size THEN st.pos + n ELSE st.size]

\* stream.seek(0); stream.read() returns the whole content
StreamContentLen(st) == st.size

\* the reset without truncate(): the old content stays
ResetStreamNoTruncate(st) == [pos |-> 0, size |-> st.size]

\* stream.seek(0); stream.truncate()
ResetStream(st) == [pos |-> 0, size |-> 0]

\* BufferedWriter.write(data) on a blocking socket: data that fits is kept in
\* the buffer; otherwise the buffer is flushed, data is handed to send() until
\* no more than BufSize bytes remain, and what remains is kept in the buffer.
\* send() may take any non-empty part of what it is given.
BufferedWrite(buf, data) ==
  IF Len(buf) + Len(data) <= BufSize
    THEN { [buf |-> buf \o data, sent |-> <<>>] }
    ELSE { [buf  |-> SubSeq(data, Len(data) - r + 1, Len(data)),
            sent |-> buf \o SubSeq(data, 1, Len(data) - r)]
           : r \in (IF Len(data) <= BufSize THEN {Len(data)} ELSE 0..BufSize) }

ServerGone == spc = "done"
ClientGone == cpc = "done"

\* the client's socket takes bytes: they reach the server, or, once the server
\* has closed, they are lost
ClientSend(bytes) ==
  c2s' = IF ServerGone THEN c2s ELSE c2s \o bytes

----------------------------------------------------------------------------
(* pilot_client.py *)

\* line 48: the camera yields the next frame, of n bytes
ClientCapture(n) ==
  /\ cpc = "capture"
  /\ Len(frames) < MaxFrames
  /\ stream' = StreamCapture(stream, n)
  /\ frames' = Append(frames, [size |-> n, prefix |-> <<>>, payload |-> -1])
  /\ cpc' = "send_len"
  /\ UNCHANGED <<collectVars, carVars, count, key, cwbuf, chandles, cexit, keys, serverVars, wireVars>>

\* line 48: the iteration over the camera ends
ClientCameraEnds ==
  /\ cpc = "capture"
  /\ cpc' = "sentinel"
  /\ UNCHANGED <<collectVars, carVars, stream, count, key, cwbuf, chandles, cexit, frames, keys,
                 serverVars, wireVars>>

\* line 48: the capture raises
ClientCaptureFails ==
  /\ cpc = "capture"
  /\ cpc' = "finally"
  /\ cexit' = "error"
  /\ UNCHANGED <<collectVars, carVars, stream, count, key, cwbuf, chandles, frames, keys,
                 serverVars, wireVars>>

\* lines 35-81: the client is stopped from outside while in its loop
\* (KeyboardInterrupt); control goes to the finally clause
ClientInterrupted ==
  /\ cpc \in {"capture", "send_len", "send_payload", "read_key", "dispatch"}
  /\ cpc' = "finally"
  /\ cexit' = "interrupt"
  /\ UNCHANGED <<collectVars, carVars, stream, count, key, cwbuf, chandles, frames, keys,
                 serverVars, wireVars>>

\* lines 50-51: write the length prefix, flush
ClientSendLen ==
  /\ cpc = "send_len"
  /\ LET f == Len(frames)
         hdr == Pack(stream.pos, f)
     IN /\ frames' = [frames EXCEPT ![f].prefix = hdr]
        /\ \E o \in BufferedWrite(cwbuf, hdr) : ClientSend(o.sent \o o.buf)
  /\ cwbuf' = <<>>
  /\ cpc' = "send_payload"
  /\ UNCHANGED <<collectVars, carVars, stream, count, key, chandles, cexit, keys, serverVars, s2c>>

\* lines 50-53: a write to the socket raises, the server having closed
ClientSendRaises ==
  /\ cpc \in {"send_len", "send_payload"}
  /\ ServerGone
  /\ cpc = "send_payload" => StreamContentLen(stream) > BufSize
  /\ cpc' = "finally"
  /\ cexit' = "error"
  /\ UNCHANGED <<collectVars, carVars, stream, count, key, cwbuf, chandles, frames, keys,
                 serverVars, wireVars>>

\* lines 52-58: write the payload, count it, reset the stream
ClientSendPayload ==
  /\ cpc = "send_payload"
  /\ LET f == Len(frames)
         data == PayloadBytes(StreamContentLen(stream), f)
     IN /\ frames' = [frames EXCEPT ![f].payload = Len(data)]
        /\ \E o \in BufferedWrite(cwbuf, data) :
             /\ ClientSend(o.sent)
             /\ cwbuf' = o.buf
  /\ count' = count + 1
  /\ stream' = ResetStream(stream)
  /\ cpc' = "read_key"
  /\ UNCHANGED <<collectVars, carVars, key, chandles, cexit, keys, serverVars, s2c>>

\* line 53: the client is stopped from outside (KeyboardInterrupt) while the
\* write of a payload larger than the buffer is handing it to the socket: k
\* of its bytes are sent, the rest never is; control goes to the finally clause
ClientPayloadCut ==
  /\ cpc = "send_payload"
  /\ StreamContentLen(stream) > BufSize
  /\ LET data == PayloadBytes(StreamContentLen(stream), Len(frames))
     IN \E k \in 1..(Len(data) - 1) : ClientSend(cwbuf \o SubSeq(data, 1, k))
  /\ cwbuf' = <<>>
  /\ cpc' = "finally"
  /\ cexit' = "interrupt"
  /\ UNCHANGED <<collectVars, carVars, stream, count, key, chandles, frames, keys, serverVars, s2c>>

\* line 61: connection.read(1) returns one byte, or no byte once the peer has
\* closed; .decode('utf-8') of the byte gives the key, or raises
\* UnicodeDecodeError and control goes to the finally clause
ClientReadKey ==
  /\ cpc = "read_key"
  /\ \/ /\ s2c # <<>>
        /\ Decodes(Head(s2c))
        /\ key' = DecodeKey(Head(s2c))
        /\ s2c' = Tail(s2c)
        /\ keys' = Append(keys, key')
        /\ cpc' = "dispatch"
        /\ cexit' = cexit
     \/ /\ s2c # <<>>
        /\ ~Decodes(Head(s2c))
        /\ s2c' = Tail(s2c)
        /\ cpc' = "finally"
        /\ cexit' = "error"
        /\ UNCHANGED <<key, keys>>
     \/ /\ s2c = <<>>
        /\ ServerGone
        /\ key' = ""
        /\ s2c' = s2c
        /\ keys' = Append(keys, key')
        /\ cpc' = "dispatch"
        /\ cexit' = cexit
  /\ UNCHANGED <<collectVars, carVars, stream, count, cwbuf, chandles, frames, serverVars, c2s>>

\* line 61: connection.read(1) raises (connection reset)
ClientReadRaises ==
  /\ cpc = "read_key"
  /\ s2c = <<>>
  /\ ServerGone
  /\ cpc' = "finally"
  /\ cexit' = "error"
  /\ UNCHANGED <<collectVars, carVars, stream, count, key, cwbuf, chandles, frames, keys,
                 serverVars, wireVars>>

\* Dispatch with the branches of '1' and '2' exchanged
DispatchSwapped(k) ==
  CASE k = "0" -> [cmd |-> "move_forward", speed |-> 40, reqs |-> move_forward(40)]
    [] k = "1" -> [cmd |-> "rotate_right", speed |-> 40, reqs |-> rotate_right(40)]
    [] k = "2" -> [cmd |-> "rotate_left", speed |-> 40, reqs |-> rotate_left(40)]
    [] OTHER -> [cmd |-> "none", speed |-> 0, reqs |-> <<>>]

\* lines 64-76: the Car command a key selects
Dispatch(k) ==
  CASE k = "0" -> [cmd |-> "move_forward", speed |-> 40, reqs |-> move_forward(40)]
    [] k = "1" -> [cmd |-> "rotate_left", speed |-> 40, reqs |-> rotate_left(40)]
    [] k = "2" -> [cmd |-> "rotate_right", speed |-> 40, reqs |-> rotate_right(40)]
    [] OTHER -> [cmd |-> "none", speed |-> 0, reqs |-> <<>>]

\* lines 64-76
ClientDispatch ==
  /\ cpc = "dispatch"
  /\ LET d == Dispatch(key)
     IN IF d.cmd = "none"
          THEN UNCHANGED carVars
          ELSE Run(d.cmd, d.speed, key, d.reqs)
  /\ cpc' = "capture"
  /\ UNCHANGED <<collectVars, stream, count, key, cwbuf, chandles, cexit, frames, keys,
                 serverVars, wireVars>>

\* line 79: write a length of zero
ClientSentinel ==
  /\ cpc = "sentinel"
  /\ \E o \in BufferedWrite(cwbuf, Pack(0, 0)) :
       /\ ClientSend(o.sent)
       /\ cwbuf' = o.buf
  /\ cexit' = "sentinel"
  /\ cpc' = "finally"
  /\ UNCHANGED <<collectVars, carVars, stream, count, key, chandles, frames, keys, serverVars, s2c>>

\* lines 82-83: connection.close() flushes the write buffer; client_socket.close()
ClientFinally ==
  /\ cpc = "finally"
  /\ ClientSend(cwbuf)
  /\ cwbuf' = <<>>
  /\ chandles' = {"connection", "client_socket"}
  /\ cpc' = "done"
  /\ UNCHANGED <<collectVars, carVars, stream, count, key, cexit, frames, keys, serverVars, s2c>>

\* line 82: the flush of connection.close() raises, the server having closed;
\* line 83 is not reached
ClientCloseRaises ==
  /\ cpc = "finally"
  /\ cwbuf # <<>>
  /\ ServerGone
  /\ chandles' = {"connection"}
  /\ cpc' = "done"
  /\ UNCHANGED <<collectVars, carVars, stream, count, key, cwbuf, cexit, frames, keys,
                 serverVars, wireVars>>

----------------------------------------------------------------------------
(* pilot_serv.py *)

\* lines 36-39: read 4 bytes, decode the length, leave the loop if it is zero
ServerReadLen ==
  /\ spc = "read_len"
  /\ Len(c2s) >= 4
  /\ LET hdr == SubSeq(c2s, 1, 4)
         n == Unpack(hdr)
     IN /\ image_len' = n
        /\ served' = Append(served, [hdr |-> hdr, len |-> n, got |-> <<>>,
                                     read |-> FALSE, answered |-> FALSE])
        /\ spc' = IF n = 0 THEN "finally" ELSE "read_payload"
        /\ sexit' = IF n = 0 THEN "sentinel" ELSE sexit
  /\ c2s' = SubSeq(c2s, 5, Len(c2s))
  /\ UNCHANGED <<collectVars, carVars, clientVars, image_stream, shandles, s2c>>

\* ServerShortLen with a read that gives up while the client is connected
ServerShortLenTimeout ==
  /\ spc = "read_len"
  /\ Len(c2s) < 4
  /\ c2s' = <<>>
  /\ spc' = "finally"
  /\ sexit' = "error"
  /\ UNCHANGED <<collectVars, carVars, clientVars, image_len, image_stream, shandles, served, s2c>>

\* line 36: fewer than 4 bytes before the end of the stream: struct.unpack raises
ServerShortLen ==
  /\ spc = "read_len"
  /\ Len(c2s) < 4
  /\ ClientGone
  /\ c2s' = <<>>
  /\ spc' = "finally"
  /\ sexit' = "error"
  /\ UNCHANGED <<collectVars, carVars, clientVars, image_len, image_stream, shandles, served, s2c>>

\* lines 43-44: read image_len bytes, or what there is before the end of the stream
ServerReadPayload ==
  /\ spc = "read_payload"
  /\ Len(c2s) >= image_len \/ ClientGone
  /\ LET n == IF Len(c2s) >= image_len THEN image_len ELSE Len(c2s)
     IN /\ image_stream' = SubSeq(c2s, 1, n)
        /\ c2s' = SubSeq(c2s, n + 1, Len(c2s))
        /\ served' = [served EXCEPT ![Len(served)].got = SubSeq(c2s, 1, n),
                                    ![Len(served)].read = TRUE]
  /\ spc' = "predict"
  /\ UNCHANGED <<collectVars, carVars, clientVars, image_len, shandles, sexit, s2c>>

\* lines 46-73: decode, predict class k, write the decision and flush. The
\* bytes read are decoded whatever their number: no line compares it with
\* image_len. Bytes cut short may decode (the JPEG decoder fills in the rows
\* that are missing) or not (ServerDecodeRaises); no bytes at all never do.
ServerPredict(k) ==
  /\ spc = "predict"
  /\ image_stream # <<>>
  /\ s2c' = IF ClientGone THEN s2c ELSE Append(s2c, EncodeKey(k))
  /\ served' = [served EXCEPT ![Len(served)].answered = TRUE]
  /\ spc' = "wait_key"
  /\ UNCHANGED <<collectVars, carVars, clientVars, image_len, image_stream, shandles, sexit, c2s>>

\* lines 54-55: an image cut short does not decode and cv2.imshow raises
ServerDecodeRaises ==
  /\ spc = "predict"
  /\ Len(image_stream) < image_len
  /\ spc' = "finally"
  /\ sexit' = "error"
  /\ UNCHANGED <<collectVars, carVars, clientVars, image_len, image_stream, shandles, served, wireVars>>

\* lines 72-73: the write of the decision raises, the client having closed
ServerWriteRaises ==
  /\ spc = "predict"
  /\ ClientGone
  /\ spc' = "finally"
  /\ sexit' = "error"
  /\ UNCHANGED <<collectVars, carVars, clientVars, image_len, image_stream, shandles, served, wireVars>>

\* lines 75-77: leave the loop if 'q' was pressed
ServerWaitKey(q) ==
  /\ spc = "wait_key"
  /\ spc' = IF q THEN "finally" ELSE "read_len"
  /\ sexit' = IF q THEN "quit" ELSE sexit
  /\ UNCHANGED <<collectVars, carVars, clientVars, image_len, image_stream, shandles, served, wireVars>>

\* lines 80-81
ServerFinally ==
  /\ spc = "finally"
  /\ shandles' = {"connection", "server_socket"}
  /\ spc' = "done"
  /\ UNCHANGED <<collectVars, carVars, clientVars, image_len, image_stream, sexit, served, wireVars>>

NextSession ==
  \/ \E n \in FrameSizes : ClientCapture(n)
  \/ ClientCameraEnds
  \/ ClientCaptureFails
  \/ ClientInterrupted
  \/ ClientSendLen
  \/ ClientSendPayload
  \/ ClientPayloadCut
  \/ ClientSendRaises
  \/ ClientReadKey
  \/ ClientReadRaises
  \/ ClientDispatch
  \/ ClientSentinel
  \/ ClientFinally
  \/ ClientCloseRaises
  \/ ServerReadLen
  \/ ServerShortLen
  \/ ServerReadPayload
  \/ \E k \in 0..MaxClassIndex : ServerPredict(k)
  \/ ServerDecodeRaises
  \/ ServerWriteRaises
  \/ \E q \in BOOLEAN : ServerWaitKey(q)
  \/ ServerFinally

SpecSession == Init /\ [][NextSession]_vars

----------------------------------------------------------------------------
(* pilot_client.py connected to an arbitrary peer *)

\* byte values the peer may send as a decision: the digits '0' and '3' and
\* the bytes on either side of the end of ASCII
DecisionBytes == {48, 51, 127, 128}

\* decision bytes the peer may have sent ahead of the client's reads
MaxUnread == 1

\* the program at SERV_ADDR sends a byte; what it does with the bytes the
\* client sent is not seen by the client
PeerSends(v) ==
  /\ ~ServerGone
  /\ Len(s2c) < MaxUnread
  /\ Len(keys) + Len(s2c) < MaxFrames
  /\ s2c' = Append(s2c, v)
  /\ UNCHANGED <<collectVars, carVars, clientVars, serverVars, c2s>>

\* the program at SERV_ADDR closes the connection
PeerCloses ==
  /\ ~ServerGone
  /\ spc' = "done"
  /\ sexit' = "peer"
  /\ UNCHANGED <<collectVars, carVars, clientVars, image_len, image_stream, shandles, served, wireVars>>

NextClient ==
  \/ \E n \in FrameSizes : ClientCapture(n)
  \/ ClientCameraEnds
  \/ ClientCaptureFails
  \/ ClientInterrupted
  \/ ClientSendLen
  \/ ClientSendPayload
  \/ ClientPayloadCut
  \/ ClientSendRaises
  \/ ClientReadKey
  \/ ClientReadRaises
  \/ ClientDispatch
  \/ ClientSentinel
  \/ ClientFinally
  \/ ClientCloseRaises
  \/ \E v \in DecisionBytes : PeerSends(v)
  \/ PeerCloses

SpecClient == Init /\ [][NextClient]_vars

----------------------------------------------------------------------------
(* collect_data.py: the car_control thread, the capture_img thread and the
   operator at the keyboard *)

\* the arrow keys car_control tests
ArrowKeys == {"UP", "LEFT", "RIGHT"}

\* keyboard events waiting for keyboard.event.get()
MaxQueued == 2

\* images written in a run
MaxSaved == 2

\* the most recent command issued to the car, "none" before the first
LastCommand == IF trace = <<>> THEN "none" ELSE trace[Len(trace)].cmd

\* the operator presses an arrow key: a KEYDOWN event is queued
OperatorPress(k) ==
  /\ k \notin pressed
  /\ Len(events) < MaxQueued
  /\ pressed' = pressed \cup {k}
  /\ events' = Append(events, "KEYDOWN")
  /\ UNCHANGED <<carVars, sessVars, key_flag, ctl, cap, saved>>

\* the operator releases an arrow key: a KEYUP event is queued
OperatorRelease(k) ==
  /\ k \in pressed
  /\ Len(events) < MaxQueued
  /\ pressed' = pressed \ {k}
  /\ events' = Append(events, "KEYUP")
  /\ UNCHANGED <<carVars, sessVars, key_flag, ctl, cap, saved>>

\* the operator closes the window: a QUIT event is queued
OperatorQuit ==
  /\ Len(events) < MaxQueued
  /\ events' = Append(events, "QUIT")
  /\ UNCHANGED <<carVars, sessVars, key_flag, ctl, cap, pressed, saved>>

\* lines 98-122: the Car command and the flag a KEYDOWN selects, by the keys
\* held down when it is handled
OnKeyDown(held) ==
  CASE "UP" \in held    -> [cmd |-> "move_forward", reqs |-> move_forward(40), flag |-> "f"]
    [] "LEFT" \in held  -> [cmd |-> "rotate_left", reqs |-> rotate_left(40), flag |-> "l"]
    [] "RIGHT" \in held -> [cmd |-> "rotate_right", reqs |-> rotate_right(40), flag |-> "r"]
    [] OTHER            -> [cmd |-> "none", reqs |-> <<>>, flag |-> ""]

\* lines 95-106, 113, 120, 128, 134: car_control takes the next event and
\* issues the Car command for it; the assignment to key_flag is still to come
ControlHandle ==
  /\ ctl.pc = "wait"
  /\ events # <<>>
  /\ Len(trace) < MaxOps
  /\ events' = Tail(events)
  /\ LET e == Head(events)
         d == OnKeyDown(pressed)
     IN CASE e = "KEYDOWN" /\ d.cmd # "none" ->
               /\ Run(d.cmd, 40, e, d.reqs)
               /\ ctl' = [pc |-> "set_flag", flag |-> d.flag]
          [] e = "KEYDOWN" /\ d.cmd = "none" ->
               /\ UNCHANGED carVars
               /\ ctl' = ctl
          [] e = "KEYUP" ->
               /\ Run("stop", 0, e, car_stop)
               /\ ctl' = [pc |-> "set_flag", flag |-> "s"]
          [] e = "QUIT" ->
               /\ UNCHANGED carVars
               /\ ctl' = [pc |-> "done", flag |-> ctl.flag]
  /\ UNCHANGED <<sessVars, key_flag, cap, pressed, saved>>

\* lines 107, 114, 121, 129: key_flag = ...
ControlSetFlag ==
  /\ ctl.pc = "set_flag"
  /\ key_flag' = ctl.flag
  /\ ctl' = [pc |-> "wait", flag |-> ctl.flag]
  /\ UNCHANGED <<carVars, sessVars, cap, pressed, events, saved>>

\* lines 149-160: a frame is read, shown and resized
CaptureRead ==
  /\ cap = "read"
  /\ Len(saved) < MaxSaved
  /\ cap' = "test_f"
  /\ UNCHANGED <<carVars, sessVars, key_flag, ctl, pressed, events, saved>>

\* lines 149-154, 179: camera.read() gives no frame
CaptureFails ==
  /\ cap = "read"
  /\ cap' = "done"
  /\ UNCHANGED <<carVars, sessVars, key_flag, ctl, pressed, events, saved>>

\* one test of the if / elif chain of lines 163-172: key_flag is read and
\* compared with flag; when equal the image is written to folder
CaptureTest(at, flag, folder, otherwise) ==
  /\ cap = at
  /\ IF key_flag = flag
       THEN /\ saved' = Append(saved, [label |-> folder, cmd |-> LastCommand])
            /\ cap' = "wait_key"
       ELSE /\ saved' = saved
            /\ cap' = otherwise
  /\ UNCHANGED <<carVars, sessVars, key_flag, ctl, pressed, events>>

\* lines 163-164
CaptureTestF == CaptureTest("test_f", "f", "move_forward", "test_l")

\* lines 167-168
CaptureTestL == CaptureTest("test_l", "l", "move_left", "test_r")

\* lines 171-172
CaptureTestR == CaptureTest("test_r", "r", "move_right", "wait_key")

\* lines 175-179: leave the loop if 'q' was pressed
CaptureWaitKey(q) ==
  /\ cap = "wait_key"
  /\ cap' = IF q THEN "done" ELSE "read"
  /\ UNCHANGED <<carVars, sessVars, key_flag, ctl, pressed, events, saved>>

NextCollect ==
  \/ \E k \in ArrowKeys : OperatorPress(k)
  \/ \E k \in ArrowKeys : OperatorRelease(k)
  \/ OperatorQuit
  \/ ControlHandle
  \/ ControlSetFlag
  \/ CaptureRead
  \/ CaptureFails
  \/ CaptureTestF
  \/ CaptureTestL
  \/ CaptureTestR
  \/ \E q \in BOOLEAN : CaptureWaitKey(q)

SpecCollect == Init /\ [][NextCollect]_vars

----------------------------------------------------------------------------
(* Reading the trace *)

\* every wheel call made so far
WheelCalls ==
  UNION { { trace[i].calls[j] : j \in 1..Len(trace[i].calls) } : i \in 1..Len(trace) }

NumWrites(ws, k) == Cardinality({ n \in 1..Len(ws) : ws[n].kind = k })

\* the wheel calls an operation made, as <<wheel, direction, duty cycle>>
Requests(e) == [ j \in 1..Len(e.calls) |-> <<e.calls[j].w, e.calls[j].op, e.calls[j].speed>> ]

Fresh == [self |-> NewWheel, hw |-> NewGpio]

\* positions i where the same rotation is called on a new Wheel at i and
\* again at i+1, with nothing in between
TwiceInARow ==
  { i \in 1..(Len(trace) - 1) :
      /\ trace[i].cmd = "wheel" /\ trace[i+1].cmd = "wheel"
      /\ trace[i].calls[1].op \in {"c", "a"}
      /\ trace[i].calls[1].pre = Fresh
      /\ trace[i+1].calls[1].w = trace[i].calls[1].w
      /\ trace[i+1].calls[1].op = trace[i].calls[1].op
      /\ trace[i+1].calls[1].speed = trace[i].calls[1].speed }

----------------------------------------------------------------------------
(* C1 *)

\* C1 as stated: on a new Wheel, the same rotation called twice in a row with
\* any duty cycle s issues exactly one direction write and exactly one
\* duty-cycle write in total, and the second call issues nothing.
C1_OneWriteEach ==
  \A i \in TwiceInARow :
    LET ws == trace[i].calls[1].writes \o trace[i+1].calls[1].writes
    IN /\ NumWrites(ws, "dir") = 1
       /\ NumWrites(ws, "dc") = 1
       /\ trace[i+1].calls[1].writes = <<>>

\* C1 amended: on a new Wheel, the same rotation called twice in a row with
\* duty cycle s issues exactly one direction write, and exactly one duty-cycle
\* write when s is not 0 (the duty cycle the PWM was started with) and none
\* when s is 0; the second call issues no hardware write at all.
C1_OneWriteEachUnlessZero ==
  \A i \in TwiceInARow :
    LET ws == trace[i].calls[1].writes \o trace[i+1].calls[1].writes
        s == trace[i].calls[1].speed
    IN /\ NumWrites(ws, "dir") = 1
       /\ NumWrites(ws, "dc") = (IF s = 0 THEN 0 ELSE 1)
       /\ trace[i+1].calls[1].writes = <<>>

C1_Witness ==
  /\ \E i \in TwiceInARow : trace[i].calls[1].speed # 0 /\ trace[i].calls[1].op = "c"
  /\ Len(trace) = 2

----------------------------------------------------------------------------
(* C2 *)

\* C2: clockwise_rotate on a wheel last turned anticlockwise writes the
\* direction pins HIGH/LOW; on a wheel already clockwise, with a duty cycle
\* different from the last one, it issues the duty-cycle write and nothing
\* else. The same for anticlockwise_rotate with LOW/HIGH.
C2_DirectionChange ==
  \A c \in WheelCalls :
    /\ (c.op = "c" /\ c.pre.self.last_dir = "a")
          => /\ NumWrites(c.writes, "dir") = 1
             /\ c.writes[1] = DirWrite("HIGH", "LOW")
    /\ (c.op = "a" /\ c.pre.self.last_dir = "c")
          => /\ NumWrites(c.writes, "dir") = 1
             /\ c.writes[1] = DirWrite("LOW", "HIGH")
    /\ (c.op \in {"c", "a"} /\ c.pre.self.last_dir = c.op
          /\ c.speed # c.pre.self.last_dc_val)
          => c.writes = <<DcWrite(c.speed)>>

C2_Witness ==
  /\ \E c \in WheelCalls : c.op = "c" /\ c.pre.self.last_dir = "a"
  /\ \E c \in WheelCalls :
       c.op = "c" /\ c.pre.self.last_dir = "c" /\ c.speed # c.pre.self.last_dc_val

----------------------------------------------------------------------------
(* C3 *)

\* C3: after stop() the last direction is 's', both direction pins were
\* driven HIGH, and the recorded duty cycle and the duty cycle of the PWM are
\* what they were before; no duty-cycle write is issued.
C3_StopKeepsDutyCycle ==
  \A c \in WheelCalls :
    c.op = "s" =>
      /\ c.post.self.last_dir = "s"
      /\ c.post.hw.dir_pin_1 = "HIGH" /\ c.post.hw.dir_pin_2 = "HIGH"
      /\ c.writes = <<DirWrite("HIGH", "HIGH")>>
      /\ c.post.self.last_dc_val = c.pre.self.last_dc_val
      /\ c.post.hw.duty = c.pre.hw.duty

C3_Witness ==
  \E c \in WheelCalls :
    c.op = "s" /\ c.pre.self.last_dir = "c" /\ c.pre.hw.duty # 0

----------------------------------------------------------------------------
(* C4 *)

\* the pin levels that stand for a recorded direction
PinsOf(d) ==
  CASE d = "s" -> <<"HIGH", "HIGH">>
    [] d = "c" -> <<"HIGH", "LOW">>
    [] d = "a" -> <<"LOW", "HIGH">>

Called(w) == \E c \in WheelCalls : c.w = w

\* C4 as stated: in every reachable state, construction included, the
\* recorded direction of each wheel is the one last driven on its pins and
\* the recorded duty cycle is the one last issued to the PWM.
C4_RecordMatchesHardware ==
  \A w \in Wheels :
    /\ <<gpio[w].dir_pin_1, gpio[w].dir_pin_2>> = PinsOf(wheel[w].last_dir)
    /\ wheel[w].last_dc_val = gpio[w].duty

\* C4 amended: the recorded duty cycle always equals the one last issued to
\* the PWM; the recorded direction is the one last driven on the pins in
\* every state after the wheel's first clockwise_rotate, anticlockwise_rotate
\* or stop call. Right after construction the record says Stopped while no
\* level has been driven on either direction pin.
C4_RecordMatchesHardwareOnceDriven ==
  \A w \in Wheels :
    /\ wheel[w].last_dc_val = gpio[w].duty
    /\ Called(w) =>
         <<gpio[w].dir_pin_1, gpio[w].dir_pin_2>> = PinsOf(wheel[w].last_dir)
    /\ ~Called(w) =>
         /\ wheel[w].last_dir = "s"
         /\ gpio[w].dir_pin_1 = "UNSET" /\ gpio[w].dir_pin_2 = "UNSET"

C4_Witness ==
  /\ wheel["front_left"].last_dir = "a" /\ gpio["front_left"].duty = 52
  /\ \E c \in WheelCalls : c.w = "front_left" /\ c.op = "s"
  /\ \E c \in WheelCalls : c.w = "front_left" /\ c.op = "a" /\ c.writes = <<>>

----------------------------------------------------------------------------
(* C5 *)

\* C5: every duty cycle issued to the PWM lies in [0,100] (0..1000 tenths).
C5_DutyCycleInRange ==
  \A c \in WheelCalls :
    \A n \in 1..Len(c.writes) :
      c.writes[n].kind = "dc" => (0 <= c.writes[n].dc /\ c.writes[n].dc <= 1000)

----------------------------------------------------------------------------
(* C6 *)

\* C6: move_forward(s) calls front-left anticlockwise at s + LEFT_FR_BIAS +
\* LEFT_RIGHT_BIAS, front-right clockwise at s + RIGHT_FR_BIAS, rear-left
\* anticlockwise at s + LEFT_RIGHT_BIAS and rear-right clockwise at s; with
\* biases 1, 1, 0.2 and s = 4 the duty cycles are 5.2, 5, 4.2 and 4.
C6_MoveForwardMapping ==
  \A i \in 1..Len(trace) :
    trace[i].cmd = "move_forward" =>
      LET s == trace[i].speed
      IN /\ Requests(trace[i]) =
              << <<"front_left", "a", s + LEFT_FR_BIAS + LEFT_RIGHT_BIAS>>,
                 <<"front_right", "c", s + RIGHT_FR_BIAS>>,
                 <<"rear_left", "a", s + LEFT_RIGHT_BIAS>>,
                 <<"rear_right", "c", s>> >>
         /\ s = 40 =>
              Requests(trace[i]) =
                << <<"front_left", "a", 52>>, <<"front_right", "c", 50>>,
                   <<"rear_left", "a", 42>>, <<"rear_right", "c", 40>> >>

C6_Witness ==
  \E i \in 1..Len(trace) :
    /\ trace[i].cmd = "move_forward" /\ trace[i].speed = 40
    /\ trace[i].calls[1].post.hw.duty = 52
    /\ trace[i].calls[3].post.hw.duty = 42

----------------------------------------------------------------------------
(* Reading the session *)

Recognized == {"0", "1", "2"}

\* the recognized keys among the first n the client read, in order
RECURSIVE RecognizedKeys(_)
RecognizedKeys(n) ==
  IF n = 0 THEN <<>>
  ELSE IF keys[n] \in Recognized
         THEN Append(RecognizedKeys(n - 1), keys[n])
         ELSE RecognizedKeys(n - 1)

\* the client is in its loop with every key it read dispatched
BetweenCycles == cpc \in {"capture", "send_len", "send_payload", "read_key", "sentinel"}

\* frames whose length prefix the client has written
FramesStarted == Cardinality({ i \in 1..Len(frames) : frames[i].prefix # <<>> })

\* decision bytes the client has read
DecisionsRead == Cardinality({ i \in 1..Len(keys) : keys[i] # "" })

\* the client left its loop normally, wrote the zero length and closed
ClientSentSentinel ==
  cpc = "done" /\ cexit = "sentinel" /\ "client_socket" \in chandles

----------------------------------------------------------------------------
(* C7 *)

\* C7: the client maps key '0' to move_forward(4), '1' to rotate_left(4) and
\* '2' to rotate_right(4), one Car command per recognized key, in order; for
\* '1' the four wheels are called clockwise with 5.2, 5, 5.2 and 4.
C7_DispatchTable ==
  LET r == RecognizedKeys(Len(keys))
  IN /\ Len(trace) <= Len(r)
     /\ BetweenCycles => Len(trace) = Len(r)
     /\ \A i \in 1..Len(trace) :
          /\ trace[i].by = r[i]
          /\ trace[i].speed = 40
          /\ trace[i].by = "0" => trace[i].cmd = "move_forward"
          /\ trace[i].by = "1" =>
               /\ trace[i].cmd = "rotate_left"
               /\ Requests(trace[i]) =
                    << <<"front_left", "c", 52>>, <<"front_right", "c", 50>>,
                       <<"rear_left", "c", 52>>, <<"rear_right", "c", 40>> >>
          /\ trace[i].by = "2" => trace[i].cmd = "rotate_right"

C7_Witness ==
  /\ Len(trace) = 3
  /\ trace[1].by = "1" /\ trace[1].calls[3].post.hw.duty = 52
  /\ trace[2].by = "0"
  /\ trace[3].by = "2"
  /\ keys = <<"1", "0", "2">>

----------------------------------------------------------------------------
(* C8 *)

\* C8: when the client has sent its frames and then the zero length, and the
\* server has ended, the server has written one decision for each of the
\* client's frames, in frame order, and has read no payload and written no
\* decision for the zero length.
C8_OneDecisionPerFrame ==
  (ClientSentSentinel /\ spc = "done") =>
    /\ Cardinality({ j \in 1..Len(served) : served[j].answered }) = count
    /\ \A j \in 1..Len(served) :
         IF served[j].len = 0
           THEN ~served[j].read /\ ~served[j].answered /\ j = Len(served)
           ELSE served[j].answered /\ served[j].hdr[1].f = j

----------------------------------------------------------------------------
(* C9 *)

\* C9: the frames the client has started to send are at most one more than
\* the decision bytes it has read, and so are the frames it has captured.
C9_OneFrameInFlight ==
  /\ FramesStarted - DecisionsRead \in {0, 1}
  /\ Len(frames) - DecisionsRead \in {0, 1}

----------------------------------------------------------------------------
(* C10 *)

\* C10: the length prefix of every frame decodes to the number of payload
\* bytes the client writes after it, which is the size of that capture alone;
\* every 4 bytes the server decodes as a length are the prefix of one frame,
\* in frame order, the payload it then reads is that frame's, and whenever
\* the server is about to read a length the next bytes are a prefix.
C10_PrefixMatchesPayload ==
  /\ \A i \in 1..Len(frames) :
       frames[i].payload # -1 =>
         /\ Unpack(frames[i].prefix) = frames[i].payload
         /\ frames[i].payload = frames[i].size
  /\ \A j \in 1..Len(served) :
       /\ \A n \in 1..4 : served[j].hdr[n].k = "len"
                          /\ served[j].hdr[n].f = served[j].hdr[1].f
       /\ served[j].hdr[1].f \in {0, j}
       /\ served[j].hdr[1].f = j => served[j].len = frames[j].size
       /\ served[j].hdr[1].f = 0 => served[j].len = 0
       /\ \A n \in 1..Len(served[j].got) :
            served[j].got[n].k = "pay" /\ served[j].got[n].f = j
  /\ spc = "read_len" =>
       \A n \in 1..(IF Len(c2s) < 4 THEN Len(c2s) ELSE 4) :
         c2s[n].k = "len" /\ c2s[n].f = c2s[1].f

C10_Witness ==
  /\ Len(frames) = 3
  /\ Len(served) = 3
  /\ served[1].answered /\ served[2].answered
  /\ frames[3].size < frames[2].size
  /\ served[3].len = frames[3].size
  /\ served[3].read /\ Len(served[3].got) = frames[3].size

----------------------------------------------------------------------------
(* C11 *)

\* the bytes of the keys '0', '1' and '2'
RecognizedBytes == {48, 49, 50}

\* C11: whatever byte other than '0', '1', '2' the client reads as a
\* decision, the read does not end the session with an error, no wheel or
\* Car operation is issued and no wheel state changes in that cycle, and the
\* client goes on to the next frame.
C11_UnrecognizedByteIsIgnored ==
  [][ /\ (cpc = "read_key" /\ s2c # <<>> /\ s2c' = Tail(s2c)
            /\ Head(s2c) \notin RecognizedBytes)
          => (cpc' = "dispatch" /\ cexit' = cexit /\ UNCHANGED carVars)
      /\ (cpc = "dispatch" /\ cpc' # cpc /\ key \notin Recognized /\ key # ""
            /\ cexit' # "interrupt")
          => (cpc' = "capture" /\ cexit' = cexit /\ UNCHANGED carVars) ]_vars

----------------------------------------------------------------------------
(* C12 *)

\* the client has left its frame loop (it is at or past the finally clause)
ClientLeftLoop == cpc \in {"finally", "done"}

\* C12: whenever the client's frame loop has stopped, for whatever reason,
\* the last thing the client wrote to the connection before closing it is
\* the zero length of line 79.
C12_SentinelOnEveryExit ==
  ClientLeftLoop => cexit = "sentinel"

----------------------------------------------------------------------------
(* C13 *)

\* payload reads of the server that came back shorter than the decoded length
ShortPayloads ==
  { j \in 1..Len(served) : served[j].read /\ Len(served[j].got) < served[j].len }

\* C13: when the connection closes mid-frame and the server's payload read
\* comes back shorter than the decoded length, the server ends the session
\* with an error: it runs no prediction on the partial payload, writes no
\* decision byte for that frame and reads no further length.
C13_ShortReadIsFatal ==
  \A j \in ShortPayloads :
    /\ ~served[j].answered
    /\ j = Len(served)
    /\ spc \in {"predict", "finally", "done"}
    /\ spc \in {"finally", "done"} => sexit = "error"

----------------------------------------------------------------------------
(* C14 *)

\* C14: once a side has left its session, by whatever path, it has closed
\* both its buffered connection and its socket.
C14_BothHandlesClosed ==
  /\ cpc = "done" => chandles = {"connection", "client_socket"}
  /\ spc = "done" => shandles = {"connection", "server_socket"}

----------------------------------------------------------------------------
(* C15 *)

\* C15: whenever the client is at the read of the decision byte, the whole
\* frame, prefix and payload, has left the client's write buffer.
C15_FlushedBeforeRead ==
  cpc = "read_key" => cwbuf = <<>>

----------------------------------------------------------------------------
(* C16 *)

\* the other rotation sense
Opposite(op) == IF op = "c" THEN "a" ELSE "c"

\* C16: move_reverse(s) calls the four wheels in the order of
\* move_forward(s), each in the opposite rotation sense and with the duty
\* cycle move_forward(s) gives it; after it every wheel's pins and PWM hold
\* that sense and duty cycle. With s = 4: clockwise 5.2, anticlockwise 5,
\* clockwise 4.2, anticlockwise 4.
C16_ReverseInvertsForward ==
  \A i \in 1..Len(trace) :
    trace[i].cmd = "move_reverse" =>
      LET s == trace[i].speed
          fwd == move_forward(s)
      IN /\ Len(trace[i].calls) = 4
         /\ \A j \in 1..4 :
              LET c == trace[i].calls[j]
              IN /\ c.w = fwd[j].w
                 /\ c.op = Opposite(fwd[j].op)
                 /\ c.speed = fwd[j].speed
                 /\ <<c.post.hw.dir_pin_1, c.post.hw.dir_pin_2>> = PinsOf(c.op)
                 /\ c.post.hw.duty = fwd[j].speed
         /\ s = 40 =>
              Requests(trace[i]) =
                << <<"front_left", "c", 52>>, <<"front_right", "a", 50>>,
                   <<"rear_left", "c", 42>>, <<"rear_right", "a", 40>> >>

C16_Witness ==
  /\ Len(trace) = 2
  /\ trace[1].cmd = "move_forward" /\ trace[1].speed = 40
  /\ trace[2].cmd = "move_reverse" /\ trace[2].speed = 40
  /\ gpio["rear_right"] = [dir_pin_1 |-> "LOW", dir_pin_2 |-> "HIGH", duty |-> 40]
  /\ gpio["front_left"] = [dir_pin_1 |-> "HIGH", dir_pin_2 |-> "LOW", duty |-> 52]

----------------------------------------------------------------------------
(* C17 *)

LeftWheels == {"front_left", "rear_left"}
RightWheels == {"front_right", "rear_right"}

\* the bias terms a wheel receives in move_forward
BiasOf(w) ==
  CASE w = "front_left"  -> LEFT_FR_BIAS + LEFT_RIGHT_BIAS
    [] w = "front_right" -> RIGHT_FR_BIAS
    [] w = "rear_left"   -> LEFT_RIGHT_BIAS
    [] w = "rear_right"  -> 0

\* the rotation sense of a wheel in move_forward
ForwardSense(w) == IF w \in LeftWheels THEN "a" ELSE "c"

\* C17 as stated: in turn_left the two left wheels, in turn_right the two
\* right wheels, receive the duty cycle 1, whatever the speed; the two
\* other wheels receive speed plus their bias; every wheel turns in its
\* forward sense.
C17_InnerWheelsGetOne ==
  \A i \in 1..Len(trace) :
    trace[i].cmd \in {"turn_left", "turn_right"} =>
      LET inner == IF trace[i].cmd = "turn_left" THEN LeftWheels ELSE RightWheels
      IN \A j \in 1..Len(trace[i].calls) :
           LET c == trace[i].calls[j]
           IN /\ c.op = ForwardSense(c.w)
              /\ c.speed = IF c.w \in inner THEN ONE
                                            ELSE trace[i].speed + BiasOf(c.w)

\* C17 amended: the inner wheels receive the constant 1 plus their bias
\* (left front 1 + LEFT_FR_BIAS + LEFT_RIGHT_BIAS, left rear 1 +
\* LEFT_RIGHT_BIAS, right front 1 + RIGHT_FR_BIAS, right rear 1), whatever
\* the speed; the outer wheels receive speed plus their bias; every wheel
\* turns in its forward sense, and each of the four wheels is called once.
C17_InnerWheelsGetOnePlusBias ==
  \A i \in 1..Len(trace) :
    trace[i].cmd \in {"turn_left", "turn_right"} =>
      LET inner == IF trace[i].cmd = "turn_left" THEN LeftWheels ELSE RightWheels
      IN /\ { trace[i].calls[j].w : j \in 1..Len(trace[i].calls) } = Wheels
         /\ Len(trace[i].calls) = 4
         /\ \A j \in 1..Len(trace[i].calls) :
              LET c == trace[i].calls[j]
              IN /\ c.op = ForwardSense(c.w)
                 /\ c.speed = (IF c.w \in inner THEN ONE ELSE trace[i].speed)
                                 + BiasOf(c.w)
                 /\ c.post.hw.duty = c.speed

C17_Witness ==
  /\ Len(trace) = 3
  /\ trace[1].cmd = "turn_left" /\ trace[1].speed = 40
  /\ trace[2].cmd = "turn_left" /\ trace[2].speed = 1000
  /\ trace[3].cmd = "turn_right" /\ trace[3].speed = 40
  /\ trace[1].calls[1].post.hw.duty = 22
  /\ trace[2].calls[1].writes = <<>>
  /\ gpio["rear_right"].duty = 10

----------------------------------------------------------------------------
(* C18 *)

\* C18: rotate_left(s) calls all four wheels clockwise and rotate_right(s)
\* all four anticlockwise, in the wheel order of move_forward(s); each wheel
\* receives the duty cycle move_forward(s) gives it, except the rear-left
\* wheel, which receives that duty cycle plus the constant 1, and no other
\* wheel differs. After the command every wheel's pins and PWM hold that
\* sense and duty cycle.
C18_RotateMapping ==
  \A i \in 1..Len(trace) :
    trace[i].cmd \in {"rotate_left", "rotate_right"} =>
      LET s == trace[i].speed
          fwd == move_forward(s)
          sense == IF trace[i].cmd = "rotate_left" THEN "c" ELSE "a"
      IN /\ Len(trace[i].calls) = 4
         /\ \A j \in 1..4 :
              LET c == trace[i].calls[j]
              IN /\ c.w = fwd[j].w
                 /\ c.op = sense
                 /\ c.speed = fwd[j].speed + (IF c.w = "rear_left" THEN ONE ELSE 0)
                 /\ <<c.post.hw.dir_pin_1, c.post.hw.dir_pin_2>> = PinsOf(sense)
                 /\ c.post.hw.duty = c.speed
         /\ Cardinality({ j \in 1..4 : trace[i].calls[j].speed # fwd[j].speed }) = 1

C18_Witness ==
  /\ Len(trace) = 2
  /\ trace[1].cmd = "rotate_left" /\ trace[1].speed = 40
  /\ trace[2].cmd = "rotate_right" /\ trace[2].speed = 40
  /\ trace[1].calls[3].post.hw = [dir_pin_1 |-> "HIGH", dir_pin_2 |-> "LOW", duty |-> 52]
  /\ gpio["rear_left"] = [dir_pin_1 |-> "LOW", dir_pin_2 |-> "HIGH", duty |-> 52]
  /\ gpio["rear_right"] = [dir_pin_1 |-> "LOW", dir_pin_2 |-> "HIGH", duty |-> 40]

----------------------------------------------------------------------------
(* C19 *)

\* C19 as stated: a wheel call of any of the three operations writes the
\* direction pins only when the direction it asks for differs from the
\* recorded last direction; stop() on a wheel recorded as stopped writes
\* nothing.
C19_DirWriteOnlyOnChange ==
  \A c \in WheelCalls :
    NumWrites(c.writes, "dir") > 0 => c.pre.self.last_dir # c.op

\* C19 amended: clockwise_rotate and anticlockwise_rotate write the
\* direction pins exactly when the direction they ask for differs from the
\* recorded last direction; stop() writes both pins HIGH on every call,
\* also on a wheel whose recorded last direction is already 's', and
\* Car.stop() does so on each of the four wheels.
C19_DirWriteOnChangeExceptStop ==
  /\ \A c \in WheelCalls :
       /\ c.op \in {"c", "a"} =>
            NumWrites(c.writes, "dir") = (IF c.pre.self.last_dir # c.op THEN 1 ELSE 0)
       /\ c.op = "s" => NumWrites(c.writes, "dir") = 1
  /\ \A i \in 1..Len(trace) :
       trace[i].cmd = "stop" =>
         /\ { trace[i].calls[j].w : j \in 1..Len(trace[i].calls) } = Wheels
         /\ \A j \in 1..Len(trace[i].calls) :
              trace[i].calls[j].writes = <<DirWrite("HIGH", "HIGH")>>

C19_Witness ==
  /\ Len(trace) = 3
  /\ trace[1].cmd = "move_forward"
  /\ trace[2].cmd = "stop" /\ trace[3].cmd = "stop"
  /\ \A j \in 1..4 :
       /\ trace[3].calls[j].pre.self.last_dir = "s"
       /\ trace[3].calls[j].pre.hw.dir_pin_1 = "HIGH"
       /\ trace[3].calls[j].pre.hw.dir_pin_2 = "HIGH"
       /\ trace[3].calls[j].writes # <<>>

----------------------------------------------------------------------------
(* C20 *)

\* the server has left its receive loop
ServerLeftLoop == spc \in {"finally", "done"}

\* C20 as stated: the server leaves its receive loop only on a zero length
\* or on an error.
C20_ExitOnlyBySentinelOrError ==
  ServerLeftLoop => sexit \in {"sentinel", "error"}

\* C20 amended: the server leaves its receive loop only on a zero length,
\* on an error, or on 'q' at cv2.waitKey, which is polled once per non-empty
\* frame, after the decision for it has been written. An error exit happens
\* only once the client has closed: the server never gives up on a read
\* while the client is connected.
C20_ExitBySentinelErrorOrQuit ==
  /\ ServerLeftLoop <=> sexit # "none"
  /\ sexit \in {"none", "sentinel", "error", "quit"}
  /\ sexit = "sentinel" => served[Len(served)].len = 0
  /\ sexit = "quit" =>
       /\ Len(served) > 0
       /\ served[Len(served)].len > 0
       /\ served[Len(served)].answered
  /\ sexit = "error" => ClientGone

C20_Witness ==
  /\ spc = "done" /\ sexit = "quit"
  /\ Len(served) = 1
  /\ Len(frames) = 2 /\ cpc = "send_payload"
  /\ chandles = {}

----------------------------------------------------------------------------
(* C21 *)

\* the reads of the decision byte that returned no byte; the i-th read
\* follows the i-th frame
EmptyReads == { i \in 1..Len(keys) : keys[i] = "" }

\* C21: after a read of the decision byte that returned no byte, the server
\* having closed, the client captures no further frame, writes no further
\* frame and reads no further decision: the session ends there.
C21_EmptyReadEndsSession ==
  \A i \in EmptyReads :
    /\ Len(frames) = i
    /\ Len(keys) = i
    /\ cpc \in {"dispatch", "finally", "done"}

----------------------------------------------------------------------------
(* C22 *)

MotionCommands ==
  {"move_forward", "move_reverse", "turn_left", "turn_right",
   "rotate_left", "rotate_right"}

\* the wheel calls of a motion command
CallsOf(cmd, s) ==
  CASE cmd = "move_forward" -> move_forward(s)
    [] cmd = "move_reverse" -> move_reverse(s)
    [] cmd = "turn_left"    -> turn_left(s)
    [] cmd = "turn_right"   -> turn_right(s)
    [] cmd = "rotate_left"  -> rotate_left(s)
    [] cmd = "rotate_right" -> rotate_right(s)

\* what a wheel and its pins hold after a rotation in sense op at duty cycle
\* dc, as a function of op and dc alone
Settled(op, dc) ==
  [self |-> [last_dir |-> op, last_dc_val |-> dc, current_dc_val |-> dc],
   hw   |-> [dir_pin_1 |-> PinsOf(op)[1], dir_pin_2 |-> PinsOf(op)[2],
             duty |-> dc]]

\* C22: whatever came before it, a motion command cmd(s) leaves each of the
\* four wheels with the record and the pin and PWM state given by cmd and s
\* alone; when it is the last operation executed, that is the state of the
\* car. The Car and Wheel operations change nothing but the wheels.
C22_CarIsStateless ==
  /\ \A i \in 1..Len(trace) :
       trace[i].cmd \in MotionCommands =>
         LET q == CallsOf(trace[i].cmd, trace[i].speed)
         IN /\ Len(trace[i].calls) = 4
            /\ { trace[i].calls[j].w : j \in 1..4 } = Wheels
            /\ \A j \in 1..4 :
                 LET c == trace[i].calls[j]
                 IN /\ c.w = q[j].w
                    /\ c.post = Settled(q[j].op, q[j].speed)
                    /\ i = Len(trace) =>
                         /\ wheel[c.w] = c.post.self
                         /\ gpio[c.w] = c.post.hw
  /\ trace # <<>> =>
       /\ cpc = "capture" /\ spc = "read_len"
       /\ c2s = <<>> /\ s2c = <<>> /\ cwbuf = <<>>
       /\ frames = <<>> /\ served = <<>> /\ keys = <<>>
       /\ chandles = {} /\ shandles = {}

\* move_forward(4) as the third operation, after a reverse at another speed
\* and a stop, on wheels that a first call would have found differently
C22_Witness ==
  /\ Len(trace) = 3
  /\ trace[1].cmd = "move_reverse" /\ trace[1].speed = 1000
  /\ trace[2].cmd = "stop"
  /\ trace[3].cmd = "move_forward" /\ trace[3].speed = 40
  /\ trace[3].calls[1].pre.self = [last_dir |-> "s", last_dc_val |-> 1012,
                                    current_dc_val |-> 1012]
  /\ wheel["front_left"] = [last_dir |-> "a", last_dc_val |-> 52, current_dc_val |-> 52]
  /\ gpio["front_left"] = [dir_pin_1 |-> "LOW", dir_pin_2 |-> "HIGH", duty |-> 52]

----------------------------------------------------------------------------
(* C23 *)

\* the client waits at connection.read(1) with nothing to read and the
\* server connected
ClientBlockedOnKey == cpc = "read_key" /\ s2c = <<>> /\ ~ServerGone

\* the server waits at connection.read(image_len) with fewer bytes than that
\* to read and the client connected
ServerBlockedOnPayload ==
  spc = "read_payload" /\ Len(c2s) < image_len /\ ~ClientGone

\* C23: the client is never blocked on the read of the decision byte while
\* the server is blocked on the read of the payload that decision is for.
C23_NoDeadlock ==
  ~(ClientBlockedOnKey /\ ServerBlockedOnPayload)

----------------------------------------------------------------------------
(* C24 *)

\* the Car command a folder stands for
CommandOfLabel(folder) ==
  CASE folder = "move_forward" -> "move_forward"
    [] folder = "move_left"    -> "rotate_left"
    [] folder = "move_right"   -> "rotate_right"

\* C24: under every interleaving of car_control and capture_img, an image
\* is written to a folder only when that folder stands for the command most
\* recently issued to the car at the moment key_flag was read, and none is
\* written while that command is stop.
C24_LabelMatchesLastCommand ==
  \A n \in 1..Len(saved) :
    /\ saved[n].cmd = CommandOfLabel(saved[n].label)
    /\ saved[n].cmd # "stop"

====
